---- MODULE Spec2Model ----
(***************************************************************************)
(* NAFPD risk assessment tool (src/streamlit_app.py).                      *)
(*                                                                         *)
(* The program is a Streamlit script: it runs top to bottom once when the  *)
(* page is loaded and once more after every change of an input widget.     *)
(* A run reads the ten number_input widgets, computes FLI, mFIB-4, the     *)
(* seven binary risk factors, the logistic probability, and displays the   *)
(* results, the verdict and the charts.                                    *)
(*                                                                         *)
(* Numbers.  TLC has integers only:                                        *)
(*   age                       years                                       *)
(*   triglycerides, ggt        whole units (widget step 1.0)               *)
(*   fpg, waist, nlr, bmi, ast, alt, platelet   thousandths of the unit    *)
(*   intercept, coefficients, weights, contributions, logit_p  thousandths *)
(*   logit_fli, fli (percent), probability    decimal numbers of 20 places *)
(*   mfib4                     the 64-bit floating-point number the script *)
(*                             computes, <<mantissa, exponent>>            *)
(* The script computes logit_fli, fli and probability in 64-bit floating   *)
(* point, whose results are good to about 15 significant digits; np.log    *)
(* and np.exp are evaluated here to 20 decimal places (Ln, Exp below),     *)
(* the last two or three of which are rounding.  mFIB-4 is a product and   *)
(* a quotient of the typed values, which the script rounds to 53 bits at   *)
(* every step and then compares with 3.05: it is computed here bit for bit *)
(* (Float, FloatMul, FloatDiv below).  Every intermediate value stays      *)
(* below 2^31.                                                             *)
(***************************************************************************)
EXTENDS Integers, Sequences, FiniteSets, TLC

VARIABLES age, fpg, ggt, waist, nlr, triglycerides, bmi, ast, alt, platelet,
          trigger,
          logit_fli, fli, mfib4,
          x_age, x_fpg, x_ggt, x_waist, x_fli, x_mfib4, x_nlr,
          logit_p, probability, verdict, contributions

inputs == <<age, fpg, ggt, waist, nlr, triglycerides, bmi, ast, alt, platelet>>

vars == <<age, fpg, ggt, waist, nlr, triglycerides, bmi, ast, alt, platelet,
          trigger,
          logit_fli, fli, mfib4,
          x_age, x_fpg, x_ggt, x_waist, x_fli, x_mfib4, x_nlr,
          logit_p, probability, verdict, contributions>>

-----------------------------------------------------------------------------
(* Decimal arithmetic.  A number is <<i, f1, f2, f3, f4, f5>>: the integer *)
(* i (negative for a negative number) plus the fraction 0.f1f2f3f4f5 with  *)
(* every f in 0..9999, that is, the number rounded down to 20 decimal      *)
(* places.                                                                 *)

B == 10000

Zero == <<0, 0, 0, 0, 0, 0>>
Unit == <<1, 0, 0, 0, 0, 0>>
Ulp == <<0, 0, 0, 0, 0, 1>>

FromInt(n) == <<n, 0, 0, 0, 0, 0>>

(* Brings the places of c back into 0..9999, carrying into the integer.    *)
Carry(c) ==
    LET k6 == c[6]
        k5 == c[5] + (k6 \div B)
        k4 == c[4] + (k5 \div B)
        k3 == c[3] + (k4 \div B)
        k2 == c[2] + (k3 \div B)
        k1 == c[1] + (k2 \div B)
    IN  <<k1, k2 % B, k3 % B, k4 % B, k5 % B, k6 % B>>

Add(a, b) == Carry(<<a[1] + b[1], a[2] + b[2], a[3] + b[3],
                     a[4] + b[4], a[5] + b[5], a[6] + b[6]>>)

Sub(a, b) == Carry(<<a[1] - b[1], a[2] - b[2], a[3] - b[3],
                     a[4] - b[4], a[5] - b[5], a[6] - b[6]>>)

Neg(a) == Sub(Zero, a)

(* a < b *)
RECURSIVE LessFrom(_, _, _)
LessFrom(a, b, i) ==
    IF i > 6 THEN FALSE
    ELSE IF a[i] # b[i] THEN a[i] < b[i]
    ELSE LessFrom(a, b, i + 1)

Less(a, b) == LessFrom(a, b, 1)

(* a * m for an integer 0 <= m <= 200000, a >= 0 *)
MulSmall(a, m) == Carry(<<a[1] * m, a[2] * m, a[3] * m,
                          a[4] * m, a[5] * m, a[6] * m>>)

(* a / d for an integer 0 < d <= 200000, a >= 0 *)
DivSmall(a, d) ==
    LET t2 == (a[1] % d) * B + a[2]
        t3 == (t2 % d) * B + a[3]
        t4 == (t3 % d) * B + a[4]
        t5 == (t4 % d) * B + a[5]
        t6 == (t5 % d) * B + a[6]
    IN  <<a[1] \div d, t2 \div d, t3 \div d, t4 \div d, t5 \div d, t6 \div d>>

(* a * b for a, b >= 0; s7 is the 24th decimal place, kept for its carry.  *)
Mul(a, b) ==
    LET s7 == a[2]*b[6] + a[3]*b[5] + a[4]*b[4] + a[5]*b[3] + a[6]*b[2]
        s6 == a[1]*b[6] + a[2]*b[5] + a[3]*b[4] + a[4]*b[3] + a[5]*b[2]
              + a[6]*b[1] + (s7 \div B)
        s5 == a[1]*b[5] + a[2]*b[4] + a[3]*b[3] + a[4]*b[2] + a[5]*b[1]
        s4 == a[1]*b[4] + a[2]*b[3] + a[3]*b[2] + a[4]*b[1]
        s3 == a[1]*b[3] + a[2]*b[2] + a[3]*b[1]
        s2 == a[1]*b[2] + a[2]*b[1]
        s1 == a[1]*b[1]
    IN  Carry(<<s1, s2, s3, s4, s5, s6>>)

(* 1 / d for 1 <= d <= 2: Newton's iteration x := x * (2 - d * x) from the *)
(* four-digit quotient below 1 / d, then the last place settled so that    *)
(* d * x <= 1 < d * (x + 10^-20).                                          *)
RECURSIVE Newton(_, _, _)
Newton(d, x, n) ==
    IF n = 0 THEN x
    ELSE Newton(d, Mul(x, Sub(FromInt(2), Mul(d, x))), n - 1)

RECURSIVE Settle(_, _)
Settle(d, x) ==
    LET up == Add(x, Ulp)
    IN  IF Less(Unit, Mul(d, up)) THEN x ELSE Settle(d, up)

Recip(d) ==
    Settle(d, Newton(d, <<0, (B * B) \div (d[1] * B + d[2] + 1), 0, 0, 0, 0>>,
                     3))

(* a / d for a >= 0 and 1 <= d <= 2 *)
Div(a, d) == Mul(a, Recip(d))

(* n / 1000 for an integer n >= 0 *)
Milli(n) == DivSmall(FromInt(n), 1000)

(* n / 1000 for any integer n *)
FromMilli(n) == IF n >= 0 THEN Milli(n) ELSE Neg(Milli(0 - n))

(* c / 1000 * v: a coefficient c in thousandths times v >= 0 *)
Scale(c, v) == DivSmall(MulSmall(v, c), 1000)

(* ln 2 *)
LN2 == <<0, 6931, 4718, 559, 9453, 942>>

(* The power of two nearest to n, from p on: n / p is within [3/4, 3/2).   *)
RECURSIVE Pow2Near(_, _)
Pow2Near(n, p) == IF 3 * p > 2 * n THEN p ELSE Pow2Near(n, 2 * p)

(* The exponent of the power of two p.                                     *)
RECURSIVE Log2(_)
Log2(p) == IF p = 1 THEN 0 ELSE 1 + Log2(p \div 2)

(* atanh(z) = z + z^3/3 + z^5/5 + ...: sum plus the terms from term / k    *)
(* on, until a term no longer changes the sum; z2 is z * z.                *)
RECURSIVE AtanhSeries(_, _, _, _)
AtanhSeries(term, z2, k, sum) ==
    LET next == Add(sum, DivSmall(term, k))
    IN  IF next = sum THEN sum
        ELSE AtanhSeries(Mul(term, z2), z2, k + 2, next)

(* 2 * atanh(p / q) for integers 0 <= p < q <= 200000 *)
Atanh2(p, q) ==
    LET z == DivSmall(FromInt(p), q)
    IN  MulSmall(AtanhSeries(z, Mul(z, z), 1, Zero), 2)

(* np.log of an integer 1 <= n <= 100000: with 2^k the power of two        *)
(* nearest to n, ln n = k * ln 2 + 2 * atanh((n - 2^k) / (n + 2^k)).       *)
Ln(n) ==
    LET p2 == Pow2Near(n, 1)
    IN  IF n >= p2
        THEN Add(MulSmall(LN2, Log2(p2)), Atanh2(n - p2, n + p2))
        ELSE Sub(MulSmall(LN2, Log2(p2)), Atanh2(p2 - n, n + p2))

(* e^(-r) = 1 - r + r^2/2! - ... for 0 <= r < 1: sum plus the terms from   *)
(* term = r^k / k! on, until a term no longer changes the sum.             *)
RECURSIVE ExpNegSeries(_, _, _, _)
ExpNegSeries(r, term, k, sum) ==
    LET next == IF k % 2 = 1 THEN Sub(sum, term) ELSE Add(sum, term)
    IN  IF next = sum THEN sum
        ELSE ExpNegSeries(r, DivSmall(Mul(term, r), k + 1), k + 1, next)

(* a^(2^n) for 0 <= a <= 1 *)
RECURSIVE Squared(_, _)
Squared(a, n) == IF n = 0 THEN a ELSE Squared(Mul(a, a), n - 1)

(* a / 2^m *)
RECURSIVE Halve(_, _)
Halve(a, m) ==
    IF m = 0 THEN a
    ELSE IF m > 16 THEN Halve(DivSmall(a, 65536), m - 16)
    ELSE DivSmall(a, 2 ^ m)

(* e^(-y) for 0 <= y < 20000: with y = m * ln 2 + r and 0 <= r < 0.7,      *)
(* e^(-y) = (e^(-r/8))^8 / 2^m.                                            *)
ExpNeg(y) ==
    LET m == ((y[1] * B + y[2]) * 10) \div 69315
        r == Sub(y, MulSmall(LN2, m))
    IN  Halve(Squared(ExpNegSeries(DivSmall(r, 8), Unit, 0, Zero), 3), m)

(* np.exp of x as the fraction <<numerator, denominator>>: e^x is          *)
(* 1 / e^(-x) for x >= 0, so that both parts stay within [0, 1].           *)
Exp(x) == IF x[1] >= 0 THEN <<Unit, ExpNeg(x)>> ELSE <<ExpNeg(Neg(x)), Unit>>

-----------------------------------------------------------------------------
(* Binary floating point (Python float: IEEE 754 binary64, round to        *)
(* nearest, ties to even).  A natural number is a sequence of limbs in     *)
(* 0..W-1, most significant first.  A positive float is <<m, e>>, the      *)
(* number m * 2^e with m a natural number of four limbs and                *)
(* 2^52 <= m < 2^53.                                                       *)

W == 16384

(* 0 <= n < 2^28 as two limbs *)
Limbs(n) == <<n \div W, n % W>>

(* x \div d and x % d by long division, continuing <<q, r>>; 0 < d <= 2^16 *)
RECURSIVE DivLimbs(_, _, _, _)
DivLimbs(x, d, r, q) ==
    IF x = <<>> THEN <<q, r>>
    ELSE LET c == r * W + Head(x)
         IN  DivLimbs(Tail(x), d, c % d, Append(q, c \div d))

(* Brings the limbs of x back into 0..W-1, from the last to the first,     *)
(* with one more limb in front for the last carry.                         *)
RECURSIVE CarryFrom(_, _, _)
CarryFrom(x, k, out) ==
    IF x = <<>> THEN <<k>> \o out
    ELSE LET t == x[Len(x)] + k
         IN  CarryFrom(SubSeq(x, 1, Len(x) - 1), t \div W, <<t % W>> \o out)

CarryLimbs(x) == CarryFrom(x, 0, <<>>)

(* x * c for 0 <= c < 2^14 *)
MulSmallLimbs(x, c) == CarryLimbs([i \in 1..Len(x) |-> x[i] * c])

(* a * b for a and b of four limbs: eight limbs *)
MulLimbs(a, b) ==
    CarryLimbs(<<a[1] * b[1],
                 a[1] * b[2] + a[2] * b[1],
                 a[1] * b[3] + a[2] * b[2] + a[3] * b[1],
                 a[1] * b[4] + a[2] * b[3] + a[3] * b[2] + a[4] * b[1],
                 a[2] * b[4] + a[3] * b[3] + a[4] * b[2],
                 a[3] * b[4] + a[4] * b[3],
                 a[4] * b[4]>>)

RECURSIVE Strip(_)
Strip(x) == IF Len(x) > 1 /\ Head(x) = 0 THEN Strip(Tail(x)) ELSE x

RECURSIVE Bits(_)
Bits(v) == IF v = 0 THEN 0 ELSE 1 + Bits(v \div 2)

(* The number of bits of x > 0. *)
BitLen(x) ==
    LET y == Strip(x)
    IN  Bits(Head(y)) + 14 * (Len(y) - 1)

AnyNonZero(x) == \E i \in 1..Len(x) : x[i] # 0

(* The last four limbs of x. *)
Last4(x) ==
    LET y == <<0, 0, 0, 0>> \o x
    IN  SubSeq(y, Len(y) - 3, Len(y))

(* a < b and a + 1 for numbers of four limbs *)
Less4(a, b) ==
    \E i \in 1..4 : a[i] < b[i] /\ \A j \in 1..(i - 1) : a[j] = b[j]

Inc4(a) == Last4(CarryLimbs(<<a[1], a[2], a[3], a[4] + 1>>))

(* The float nearest to (n + d) * 2^e, where n > 0 is a natural number and *)
(* 0 <= d < 1 with d > 0 iff sticky (n >= 2^53 when sticky).  The top 54   *)
(* bits of n are kept: 53 for the mantissa, the 54th to round on; a tie    *)
(* (54th bit 1, nothing below it) goes to the even mantissa.               *)
RECURSIVE Round(_, _, _)
Round(n, e, sticky) ==
    IF BitLen(n) < 54 THEN Round(Strip(n) \o <<0>>, e - 14, sticky)
    ELSE LET x == Strip(n)
             t == BitLen(x) - 54
             j == t \div 14
             kept == DivLimbs(SubSeq(x, 1, Len(x) - j), 2 ^ (t % 14), 0, <<>>)
             low == SubSeq(x, Len(x) - j + 1, Len(x))
             st == sticky \/ kept[2] # 0 \/ AnyNonZero(low)
             half == DivLimbs(Last4(kept[1]), 2, 0, <<>>)
             up == half[2] = 1 /\ (st \/ half[1][4] % 2 = 1)
             m == IF up THEN Inc4(half[1]) ELSE half[1]
         IN  IF m[1] = 2048 THEN <<<<1024, 0, 0, 0>>, e + t + 2>>
                            ELSE <<m, e + t + 1>>

(* float of a typed value of n thousandths, 0 < n < 2^28: n * 2^70 / 1000  *)
(* rounded.                                                                *)
Float(n) ==
    LET q == DivLimbs(Limbs(n) \o <<0, 0, 0, 0, 0>>, 1000, 0, <<>>)
    IN  Round(q[1], 0 - 70, q[2] # 0)

(* c * x for an int 0 < c < 2^14 and a float x *)
FloatMulInt(c, x) == Round(MulSmallLimbs(x[1], c), x[2], FALSE)

(* x * y *)
FloatMul(x, y) == Round(MulLimbs(x[1], y[1]), x[2] + y[2], FALSE)

(* For the division a mantissa is taken as two limbs of 27 bits, which     *)
(* doubling keeps below 2^31.                                              *)
V == 134217728

Wide(m) == <<m[1] * 32768 + m[2] * 2 + (m[3] \div 8192),
             (m[3] % 8192) * W + m[4]>>

LessWide(a, b) == a[1] < b[1] \/ (a[1] = b[1] /\ a[2] < b[2])

(* a - b for a >= b *)
SubWide(a, b) ==
    IF a[2] >= b[2] THEN <<a[1] - b[1], a[2] - b[2]>>
                    ELSE <<a[1] - b[1] - 1, a[2] - b[2] + V>>

(* Long division by b, bit by bit: r < b is the remainder and q the        *)
(* quotient so far, and n more bits of the quotient are to come; gives     *)
(* <<remainder, quotient>>.                                                *)
RECURSIVE QuotBits(_, _, _, _)
QuotBits(r, b, q, n) ==
    IF n = 0 THEN <<r, q>>
    ELSE LET lo == 2 * r[2]
             r2 == <<2 * r[1] + (lo \div V), lo % V>>
         IN  IF LessWide(r2, b)
             THEN QuotBits(r2, b, 2 * q, n - 1)
             ELSE QuotBits(SubWide(r2, b), b, 2 * q + 1, n - 1)

(* x / y: the quotient of the mantissas to 55 binary places, a limb of the *)
(* quotient at a time, rounded.                                            *)
FloatDiv(x, y) ==
    LET a == Wide(x[1])
        b == Wide(y[1])
        q1 == IF LessWide(a, b) THEN QuotBits(a, b, 0, 13)
                                ELSE QuotBits(SubWide(a, b), b, 1, 13)
        q2 == QuotBits(q1[1], b, 0, 14)
        q3 == QuotBits(q2[1], b, 0, 14)
        q4 == QuotBits(q3[1], b, 0, 14)
    IN  Round(<<q1[2], q2[2], q3[2], q4[2]>>, x[2] - y[2] - 55,
              q4[1] # <<0, 0>>)

(* x > y *)
FloatGreater(x, y) == x[2] > y[2] \/ (x[2] = y[2] /\ Less4(y[1], x[1]))

-----------------------------------------------------------------------------
(* The script, top to bottom.                                              *)

(* 1. FLI *)
LogitFli(tg, b, g, w) ==
    Sub(Add(Add(Add(Scale(953, Ln(tg)), Scale(139, Milli(b))),
                Scale(718, Ln(g))),
            Scale(53, Milli(w))),
        Milli(15745))

(* Variant of Fli that forgets the factor 100 (FLI as a fraction).         *)
FliFraction(l) ==
    LET e == Exp(l)
    IN  Div(e[1], Add(e[2], e[1]))

(* exp(l) / (1 + exp(l)) * 100 *)
Fli(l) ==
    LET e == Exp(l)
    IN  MulSmall(Div(e[1], Add(e[2], e[1])), 100)

(* Variant of Mfib4 that forgets the factor 10.                            *)
Mfib4NoTen(a, s, p, l) ==
    FloatDiv(FloatMulInt(a, Float(s)), FloatMul(Float(p), Float(l)))

(* 2. mFIB-4 = 10 * age * ast / (platelet * alt): the int 10 * age times   *)
(* the float ast, divided by the product of the floats platelet and alt.   *)
Mfib4(a, s, p, l) ==
    FloatDiv(FloatMulInt(10 * a, Float(s)), FloatMul(Float(p), Float(l)))

(* 3. Binary encoding of risk factors *)
XAge(a) == IF a > 65 THEN 1 ELSE 0
(* Variant of XFpg with the encoding inverted.                             *)
XFpgInverted(f) == IF f > 6100 THEN 0 ELSE 1
XFpg(f) == IF f > 6100 THEN 1 ELSE 0
XGgt(g) == IF g > 50 THEN 1 ELSE 0
XWaist(w) == IF w > 88493 THEN 1 ELSE 0
XFli(f) == IF Less(Milli(24700), f) THEN 1 ELSE 0
(* the float 3.05 *)
mfib4_threshold == Float(3050)
XMfib4(m) == IF FloatGreater(m, mfib4_threshold) THEN 1 ELSE 0
XNlr(n) == IF n > 1970 THEN 1 ELSE 0

(* 4. Logistic regression calculation *)
intercept == 0 - 3089

(* Variant of coefficients with the GGT and waist entries exchanged.       *)
coefficientsSwapped ==
    [k \in {"Age>65", "FPG>6.1", "GGT>50", "Waist>88.493", "FLI>24.7",
            "mFIB4>3.05", "NLR>1.97"} |->
        CASE k = "Age>65"       -> 748
          [] k = "FPG>6.1"      -> 903
          [] k = "GGT>50"       -> 721
          [] k = "Waist>88.493" -> 510
          [] k = "FLI>24.7"     -> 589
          [] k = "mFIB4>3.05"   -> 731
          [] k = "NLR>1.97"     -> 458]

coefficients ==
    [k \in {"Age>65", "FPG>6.1", "GGT>50", "Waist>88.493", "FLI>24.7",
            "mFIB4>3.05", "NLR>1.97"} |->
        CASE k = "Age>65"       -> 748
          [] k = "FPG>6.1"      -> 903
          [] k = "GGT>50"       -> 510
          [] k = "Waist>88.493" -> 721
          [] k = "FLI>24.7"     -> 589
          [] k = "mFIB4>3.05"   -> 731
          [] k = "NLR>1.97"     -> 458]

(* Variant of LogitP that leaves the intercept out.                        *)
LogitPNoIntercept(xa, xf, xg, xw, xl, xm, xn) ==
    coefficients["Age>65"] * xa
    + coefficients["FPG>6.1"] * xf
    + coefficients["GGT>50"] * xg
    + coefficients["Waist>88.493"] * xw
    + coefficients["FLI>24.7"] * xl
    + coefficients["mFIB4>3.05"] * xm
    + coefficients["NLR>1.97"] * xn

LogitP(xa, xf, xg, xw, xl, xm, xn) ==
    intercept
    + coefficients["Age>65"] * xa
    + coefficients["FPG>6.1"] * xf
    + coefficients["GGT>50"] * xg
    + coefficients["Waist>88.493"] * xw
    + coefficients["FLI>24.7"] * xl
    + coefficients["mFIB4>3.05"] * xm
    + coefficients["NLR>1.97"] * xn

(* 1 / (1 + exp(-logit_p)); lp in thousandths *)
Probability(lp) ==
    LET e == Exp(Neg(FromMilli(lp)))
    IN  Div(e[2], Add(e[2], e[1]))

(* Variant of Verdict with the lower cut at 0.25 instead of 0.2.           *)
VerdictCut25(p) ==
    IF Less(p, Milli(250)) THEN "Low risk"
    ELSE IF Less(p, Milli(500)) THEN "Moderate risk - consider regular monitoring"
    ELSE "High risk - recommend further evaluation"

(* 5. Display results: the verdict shown *)
Verdict(p) ==
    IF Less(p, Milli(200)) THEN "Low risk"
    ELSE IF Less(p, Milli(500)) THEN "Moderate risk - consider regular monitoring"
    ELSE "High risk - recommend further evaluation"

(* 6. Radar chart of risk factors *)
factors == <<"Age>65", "FPG>6.1", "GGT>50", "Waist>88.493", "FLI>24.7",
             "mFIB4>3.05", "NLR>1.97">>

values == <<x_age, x_fpg, x_ggt, x_waist, x_fli, x_mfib4, x_nlr>>

(* 8. Nomogram-like contribution chart *)
(* Variant of weights with the second and third entries exchanged.         *)
weightsSwapped == <<748, 510, 903, 721, 589, 731, 458>>

weights == <<748, 903, 510, 721, 589, 731, 458>>

Contributions(vals) == [i \in 1..7 |-> weights[i] * vals[i]]

-----------------------------------------------------------------------------
(* The input widgets of the page (labels shortened to the script's         *)
(* variable names); there is no other widget and no form.                  *)
widgets == {"age", "fpg", "ggt", "waist", "nlr", "triglycerides", "bmi",
            "ast", "alt", "platelet"}

(* The values the widgets are set to in a session that starts at the       *)
(* defaults: each widget's default and its value in the worked example of  *)
(* all seven factors, which lie on either side of its threshold; and       *)
(* triglycerides 30, which with bmi 30 brings FLI below 24.7 at the        *)
(* default ggt and waist and leaves it above 24.7 at those of the example. *)
AgeInputs == {50, 70}
FpgInputs == {5500, 7000}
GgtInputs == {30, 60}
WaistInputs == {85000, 95000}
NlrInputs == {1500, 2500}
TriglyceridesInputs == {30, 150, 200}
BmiInputs == {23000, 30000}
AstInputs == {20000, 40000}
AltInputs == {20000, 25000}
PlateletInputs == {150000, 200000}

-----------------------------------------------------------------------------
(* One run of the script with the widgets at the given values: the         *)
(* assignments of the script in their order.                               *)
RunScript(a, f, g, w, n, tg, b, s, l, p, why) ==
    /\ age' = a /\ fpg' = f /\ ggt' = g /\ waist' = w /\ nlr' = n
    /\ triglycerides' = tg /\ bmi' = b /\ ast' = s /\ alt' = l
    /\ platelet' = p
    /\ trigger' = why
    /\ logit_fli' = LogitFli(tg, b, g, w)
    /\ fli' = Fli(logit_fli')
    /\ mfib4' = Mfib4(a, s, p, l)
    /\ x_age' = XAge(a)
    /\ x_fpg' = XFpg(f)
    /\ x_ggt' = XGgt(g)
    /\ x_waist' = XWaist(w)
    /\ x_fli' = XFli(fli')
    /\ x_mfib4' = XMfib4(mfib4')
    /\ x_nlr' = XNlr(n)
    /\ logit_p' = LogitP(x_age', x_fpg', x_ggt', x_waist', x_fli', x_mfib4',
                         x_nlr')
    /\ probability' = Probability(logit_p')
    /\ verdict' = Verdict(probability')
    /\ contributions' = Contributions(values')

(* The page after a run of the script with the widgets at the given        *)
(* values: what RunScript leaves.                                          *)
Loaded(a, f, g, w, n, tg, b, s, l, p, why) ==
    /\ age = a /\ fpg = f /\ ggt = g /\ waist = w /\ nlr = n
    /\ triglycerides = tg /\ bmi = b /\ ast = s /\ alt = l
    /\ platelet = p
    /\ trigger = why
    /\ logit_fli = LogitFli(tg, b, g, w)
    /\ fli = Fli(logit_fli)
    /\ mfib4 = Mfib4(a, s, p, l)
    /\ x_age = XAge(a)
    /\ x_fpg = XFpg(f)
    /\ x_ggt = XGgt(g)
    /\ x_waist = XWaist(w)
    /\ x_fli = XFli(fli)
    /\ x_mfib4 = XMfib4(mfib4)
    /\ x_nlr = XNlr(n)
    /\ logit_p = LogitP(x_age, x_fpg, x_ggt, x_waist, x_fli, x_mfib4, x_nlr)
    /\ probability = Probability(logit_p)
    /\ verdict = Verdict(probability)
    /\ contributions = Contributions(values)

(* The page after it is first loaded: every widget at its default value,   *)
(* and the script has run once.                                            *)
Init ==
    Loaded(50, 5500, 30, 85000, 1500, 150, 23000, 20000, 25000, 200000,
           "load")

(* The user changes one widget to a value of S; Streamlit reruns the       *)
(* script.                                                                 *)
SetAge(S) ==
    \E v \in S \ {age} :
        RunScript(v, fpg, ggt, waist, nlr,
                  triglycerides, bmi, ast, alt, platelet, "widget")
SetFpg(S) ==
    \E v \in S \ {fpg} :
        RunScript(age, v, ggt, waist, nlr,
                  triglycerides, bmi, ast, alt, platelet, "widget")
SetGgt(S) ==
    \E v \in S \ {ggt} :
        RunScript(age, fpg, v, waist, nlr,
                  triglycerides, bmi, ast, alt, platelet, "widget")
SetWaist(S) ==
    \E v \in S \ {waist} :
        RunScript(age, fpg, ggt, v, nlr,
                  triglycerides, bmi, ast, alt, platelet, "widget")
SetNlr(S) ==
    \E v \in S \ {nlr} :
        RunScript(age, fpg, ggt, waist, v,
                  triglycerides, bmi, ast, alt, platelet, "widget")
SetTriglycerides(S) ==
    \E v \in S \ {triglycerides} :
        RunScript(age, fpg, ggt, waist, nlr,
                  v, bmi, ast, alt, platelet, "widget")
SetBmi(S) ==
    \E v \in S \ {bmi} :
        RunScript(age, fpg, ggt, waist, nlr,
                  triglycerides, v, ast, alt, platelet, "widget")
SetAst(S) ==
    \E v \in S \ {ast} :
        RunScript(age, fpg, ggt, waist, nlr,
                  triglycerides, bmi, v, alt, platelet, "widget")
SetAlt(S) ==
    \E v \in S \ {alt} :
        RunScript(age, fpg, ggt, waist, nlr,
                  triglycerides, bmi, ast, v, platelet, "widget")
SetPlatelet(S) ==
    \E v \in S \ {platelet} :
        RunScript(age, fpg, ggt, waist, nlr,
                  triglycerides, bmi, ast, alt, v, "widget")

Next ==
    \/ SetAge(AgeInputs) \/ SetFpg(FpgInputs) \/ SetGgt(GgtInputs)
    \/ SetWaist(WaistInputs) \/ SetNlr(NlrInputs)
    \/ SetTriglycerides(TriglyceridesInputs) \/ SetBmi(BmiInputs)
    \/ SetAst(AstInputs) \/ SetAlt(AltInputs) \/ SetPlatelet(PlateletInputs)

Spec == Init /\ [][Next]_vars

-----------------------------------------------------------------------------
(* The same page at the ends of the widgets' ranges.  Each set holds the   *)
(* widget's min_value and max_value; ggt and waist also keep the value of  *)
(* the worked example, with which FLI can stay below 24.7 while GGT and    *)
(* waist are above their thresholds.  The session is picked up after the   *)
(* user has brought every widget to one of these values, and goes on       *)
(* among them.                                                             *)
AgeDomain == {1, 120}
FpgDomain == {2000, 30000}
GgtDomain == {5, 60, 500}
WaistDomain == {30000, 95000, 150000}
NlrDomain == {100, 15000}
TriglyceridesDomain == {10, 1000}
BmiDomain == {10000, 50000}
AstDomain == {5000, 500000}
AltDomain == {5000, 500000}
PlateletDomain == {10000, 1000000}

InitDomain ==
    \E a \in AgeDomain, f \in FpgDomain, g \in GgtDomain, w \in WaistDomain,
       n \in NlrDomain, tg \in TriglyceridesDomain, b \in BmiDomain,
       s \in AstDomain, l \in AltDomain, p \in PlateletDomain :
        Loaded(a, f, g, w, n, tg, b, s, l, p, "widget")

NextDomain ==
    \/ SetAge(AgeDomain) \/ SetFpg(FpgDomain) \/ SetGgt(GgtDomain)
    \/ SetWaist(WaistDomain) \/ SetNlr(NlrDomain)
    \/ SetTriglycerides(TriglyceridesDomain) \/ SetBmi(BmiDomain)
    \/ SetAst(AstDomain) \/ SetAlt(AltDomain) \/ SetPlatelet(PlateletDomain)

SpecDomain == InitDomain /\ [][NextDomain]_vars

-----------------------------------------------------------------------------
(* The same page around the thresholds.  Each set holds the threshold of   *)
(* the widget's factor and a value above it: age 61 with platelet 200 and  *)
(* ast = alt puts mFIB-4 on 3.05 (at 20 and at 19.9, which is no binary    *)
(* fraction), ast 20 with alt 19.9 puts it above and ast 19.9 with alt 20  *)
(* below; with ggt and waist from these sets, triglycerides 296 and bmi    *)
(* 12.291 bring FLI to within 0.000001 below 24.7 (at ggt 50, waist        *)
(* 88.493) and triglycerides 115 and bmi 18.668 to within 0.000001 above   *)
(* it (at ggt 51, waist 88.5).  The session is picked up after the user    *)
(* has brought every widget to one of these values, and goes on among      *)
(* them.                                                                   *)
AgeThreshold == {61, 65, 66}
FpgThreshold == {6100, 6200}
GgtThreshold == {50, 51}
WaistThreshold == {88493, 88500}
NlrThreshold == {1970, 2000}
TriglyceridesThreshold == {115, 296}
BmiThreshold == {12291, 18668}
AstThreshold == {19900, 20000}
AltThreshold == {19900, 20000}
PlateletThreshold == {200000, 250000}

InitThreshold ==
    \E a \in AgeThreshold, f \in FpgThreshold, g \in GgtThreshold,
       w \in WaistThreshold, n \in NlrThreshold,
       tg \in TriglyceridesThreshold, b \in BmiThreshold,
       s \in AstThreshold, l \in AltThreshold, p \in PlateletThreshold :
        Loaded(a, f, g, w, n, tg, b, s, l, p, "widget")

NextThreshold ==
    \/ SetAge(AgeThreshold) \/ SetFpg(FpgThreshold) \/ SetGgt(GgtThreshold)
    \/ SetWaist(WaistThreshold) \/ SetNlr(NlrThreshold)
    \/ SetTriglycerides(TriglyceridesThreshold) \/ SetBmi(BmiThreshold)
    \/ SetAst(AstThreshold) \/ SetAlt(AltThreshold)
    \/ SetPlatelet(PlateletThreshold)

SpecThreshold == InitThreshold /\ [][NextThreshold]_vars

-----------------------------------------------------------------------------
(* Properties.                                                             *)

LowRisk == "Low risk"
ModerateRisk == "Moderate risk - consider regular monitoring"
HighRisk == "High risk - recommend further evaluation"

(* a <= b *)
Leq(a, b) == ~Less(b, a)

(* A decimal number 0 <= a < 2000 in millionths, rounded down.             *)
Micro(a) == a[1] * 1000000 + a[2] * 100 + (a[3] \div 100)

(* ln(p / (1 - p)) for p rounded down to five places, 0.00001 <= p < 1.    *)
LogitOf(p) ==
    LET n == Micro(p) \div 10
    IN  Sub(Ln(n), Ln(100000 - n))

(* |a - b| < 0.0005 *)
Near(a, b) ==
    /\ Less(Sub(a, b), <<0, 5, 0, 0, 0, 0>>)
    /\ Less(Sub(b, a), <<0, 5, 0, 0, 0, 0>>)

RECURSIVE SeqSum(_)
SeqSum(q) == IF q = <<>> THEN 0 ELSE Head(q) + SeqSum(Tail(q))

(* The widgets at their default values. *)
AtDefaults ==
    inputs = <<50, 5500, 30, 85000, 1500, 150, 23000, 20000, 25000, 200000>>

(* The widgets at the values of the worked example: age 70, fpg 7.0,      *)
(* ggt 60, waist 95, nlr 2.5, triglycerides 200, bmi 30, ast 40, alt 20,   *)
(* platelet 150.                                                           *)
AtExample ==
    inputs = <<70, 7000, 60, 95000, 2500, 200, 30000, 40000, 20000, 150000>>

(* The GGT and waist thresholds a gender-aware scorer would use.           *)
GenderedGgt(g) == IF g = "Male" THEN 50 ELSE 32
GenderedWaist(g) == IF g = "Male" THEN 93400 ELSE 88493

(* C1: the GGT and waist flags follow the gender: for Male GgtHigh = 1 iff *)
(* ggt > 50.0 and WaistHigh = 1 iff waist > 93.4, for Female iff           *)
(* ggt > 32.0 and iff waist > 88.493.  The script has no gender input, so  *)
(* the flags it shows are its answer for a Male and for a Female patient   *)
(* alike.                                                                  *)
C1_GenderedThresholds ==
    \A g \in {"Male", "Female"} :
        /\ x_ggt = 1 <=> ggt > GenderedGgt(g)
        /\ x_waist = 1 <=> waist > GenderedWaist(g)

(* C2: no result is shown while the submission is incomplete: a verdict is *)
(* on the page only after a submit event, with a gender chosen.            *)
C2_WithheldUntilSubmit ==
    verdict \in {LowRisk, ModerateRisk, HighRisk}
        => (trigger = "submit" /\ "gender" \in widgets)

(* 1000 * age * ast and 305 * platelet * alt, whose order is that of       *)
(* mFIB-4 and 3.05, as exact decimal numbers.                              *)
Mfib4Side == MulSmall(Milli(ast), 1000 * age)
ThresholdSide == MulSmall(Mul(Milli(platelet), Milli(alt)), 305)

(* C3: each of the seven flags is 1 iff its value is strictly above its    *)
(* threshold, so that a value equal to the threshold gives flag 0: age =   *)
(* 65, fpg = 6.1, ggt = 50, waist = 88.493, FLI = 24.7, mFIB-4 = 3.05,     *)
(* that is 1000 * age * ast = 305 * platelet * alt, and nlr = 1.97; an FLI *)
(* of 24.7000002 is above the threshold and one of 24.6999994 is not.      *)
C3_StrictComparisons ==
    /\ values \in [1..7 -> {0, 1}]
    /\ x_age = 1 <=> age > 65
    /\ x_fpg = 1 <=> fpg > 6100
    /\ x_ggt = 1 <=> ggt > 50
    /\ x_waist = 1 <=> waist > 88493
    /\ x_fli = 1 <=> Less(Milli(24700), fli)
    /\ x_mfib4 = 1 <=> Less(ThresholdSide, Mfib4Side)
    /\ x_nlr = 1 <=> nlr > 1970
    /\ age = 65 => x_age = 0
    /\ fpg = 6100 => x_fpg = 0
    /\ ggt = 50 => x_ggt = 0
    /\ waist = 88493 => x_waist = 0
    /\ fli = Milli(24700) => x_fli = 0
    /\ Mfib4Side = ThresholdSide => x_mfib4 = 0
    /\ nlr = 1970 => x_nlr = 0
    /\ <<triglycerides, bmi, ggt, waist>> = <<115, 18668, 51, 88500>>
           => Micro(fli) = 24700000 /\ x_fli = 1
    /\ <<triglycerides, bmi, ggt, waist>> = <<296, 12291, 50, 88493>>
           => Micro(fli) = 24699999 /\ x_fli = 0

(* C4: logit(p) is -3.089 plus 0.748, 0.903, 0.510, 0.721, 0.589, 0.731,   *)
(* 0.458 times AgeHigh, GlucoseHigh, GgtHigh, WaistHigh, FliHigh,          *)
(* Fib4High, NlrHigh, and p = 1 / (1 + exp(-logit)), that is,              *)
(* ln(p / (1 - p)) = logit (here to within 0.0005, which tells any two     *)
(* logits apart).                                                          *)
C4_LogisticCombination ==
    /\ logit_p = 0 - 3089 + 748 * x_age + 903 * x_fpg + 510 * x_ggt
                  + 721 * x_waist + 589 * x_fli + 731 * x_mfib4 + 458 * x_nlr
    /\ Less(Zero, probability) /\ Less(probability, Unit)
    /\ Near(LogitOf(probability), FromMilli(logit_p))

(* A mixed combination of flags. *)
C4_Witness == values = <<1, 0, 1, 0, 1, 0, 1>> /\ logit_p = 0 - 784

(* C5: exactly one tier is shown: Low iff p < 0.20, Moderate iff           *)
(* 0.20 <= p < 0.50, High iff p >= 0.50; on the logit, High iff            *)
(* logit >= 0 and Low iff logit < ln(0.25).                                *)
C5_RiskTiers ==
    /\ verdict \in {LowRisk, ModerateRisk, HighRisk}
    /\ verdict = LowRisk <=> Less(probability, Milli(200))
    /\ verdict = ModerateRisk <=> (/\ Leq(Milli(200), probability)
                                   /\ Less(probability, Milli(500)))
    /\ verdict = HighRisk <=> Leq(Milli(500), probability)
    /\ verdict = HighRisk <=> logit_p >= 0
    /\ verdict = LowRisk <=> Less(FromMilli(logit_p), Neg(Ln(4)))

(* The Moderate verdict nearest to the Low cut: logit -1.373, p 0.2021.    *)
C5_Witness == logit_p = 0 - 1373 /\ verdict = ModerateRisk

(* C6: for inputs up to the ends of their ranges, probability is within    *)
(* [0, 1], FLI within [0, 100], the logit within [intercept, intercept +   *)
(* sum of the seven coefficients], and the probability within the sigmoid  *)
(* of these two.                                                           *)
C6_Ranges ==
    /\ Leq(Zero, probability) /\ Leq(probability, Unit)
    /\ Leq(Zero, fli) /\ Leq(fli, FromInt(100))
    /\ logit_p >= intercept
    /\ logit_p <= intercept + SeqSum(weights)
    /\ Leq(Probability(intercept), probability)
    /\ Leq(probability, Probability(intercept + SeqSum(weights)))

(* Every widget at the end of its range that raises the risk: FLI is just  *)
(* below 100 and all seven flags are set.                                  *)
C6_Witness ==
    /\ inputs = <<120, 30000, 500, 150000, 15000, 1000, 50000, 500000, 5000,
                   10000>>
    /\ Less(Milli(99990), fli) /\ Leq(fli, FromInt(100))
    /\ logit_p = intercept + SeqSum(weights)
    /\ probability = Probability(intercept + SeqSum(weights))

(* C7 as stated: at the worked example all seven flags are 1 and the       *)
(* logit is -3.089 + 4.68 = 1.591, p about 0.83, High risk.                *)
C7_Original ==
    AtExample =>
        /\ values = <<1, 1, 1, 1, 1, 1, 1>>
        /\ logit_p = 1591
        /\ Micro(probability) >= 825000 /\ Micro(probability) < 835000
        /\ verdict = HighRisk

(* C7 as amended: at the worked example all seven flags are 1 and the      *)
(* logit is -3.089 plus the sum of the seven coefficients, which is        *)
(* -3.089 + 4.660 = 1.571, p about 0.83, High risk.                        *)
C7_WorkedExample ==
    AtExample =>
        /\ values = <<1, 1, 1, 1, 1, 1, 1>>
        /\ SeqSum(weights) = 4660
        /\ logit_p = intercept + SeqSum(weights)
        /\ logit_p = 1571
        /\ Micro(probability) >= 825000 /\ Micro(probability) < 835000
        /\ verdict = HighRisk

(* The script has run on the worked example. *)
C7_Witness == AtExample /\ trigger = "widget" /\ x_mfib4 = 1

(* C8 as stated: at the default values all seven flags are 0, the logit is *)
(* -3.089, p about 0.0437, Low risk.                                       *)
C8_Original ==
    AtDefaults =>
        /\ values = <<0, 0, 0, 0, 0, 0, 0>>
        /\ logit_p = 0 - 3089
        /\ Micro(probability) >= 43650 /\ Micro(probability) < 43750
        /\ verdict = LowRisk

(* C8 as amended: at the default values FLI is about 30.45, above 24.7, so *)
(* FliHigh is 1 and the other six flags are 0; the logit is                *)
(* -3.089 + 0.589 = -2.500, p about 0.0759, Low risk.                      *)
C8_Defaults ==
    AtDefaults =>
        /\ values = <<0, 0, 0, 0, 1, 0, 0>>
        /\ Micro(fli) > 30400000 /\ Micro(fli) < 30500000
        /\ logit_p = 0 - 2500
        /\ Micro(probability) >= 75800 /\ Micro(probability) < 75900
        /\ verdict = LowRisk

(* The page as first loaded. *)
C8_Witness == AtDefaults /\ trigger = "load" /\ x_fli = 1

(* Widget k (its position in inputs) is raised and no other is changed.    *)
Raised(k) ==
    /\ inputs'[k] > inputs[k]
    /\ \A j \in 1..10 : j # k => inputs'[j] = inputs[j]

(* C9: raising one of age, fpg, ggt, waist, nlr with the other inputs      *)
(* fixed moves no flag from 1 to 0 and lowers neither the logit nor the    *)
(* probability.                                                            *)
C9_Monotone ==
    [][(\E k \in 1..5 : Raised(k)) =>
          /\ \A i \in 1..7 : values'[i] >= values[i]
          /\ logit_p' >= logit_p
          /\ Leq(probability, probability')]_vars

(* Raising inputs has switched flags on: triglycerides 30 and bmi 30 keep  *)
(* FLI below 24.7 at ggt 30 and waist 85, and above it at ggt 60 and       *)
(* waist 95.                                                               *)
C9_Witness ==
    /\ trigger = "widget" /\ triglycerides = 30 /\ bmi = 30000
    /\ ggt = 60 /\ waist = 95000 /\ age = 70
    /\ x_ggt = 1 /\ x_waist = 1 /\ x_fli = 1 /\ x_age = 1
    /\ XFli(Fli(LogitFli(30, 30000, 30, 85000))) = 0

(* C10: contributions are the seven products coefficient * flag, with the  *)
(* coefficient the logit uses for the same factor; with the intercept they *)
(* sum to the logit, and a contribution is 0 exactly when its flag is 0.   *)
C10_Contributions ==
    /\ Len(contributions) = 7 /\ Len(factors) = 7 /\ Len(weights) = 7
    /\ \A i \in 1..7 :
          /\ weights[i] = coefficients[factors[i]]
          /\ contributions[i] = coefficients[factors[i]] * values[i]
          /\ contributions[i] = 0 <=> values[i] = 0
    /\ intercept + SeqSum(contributions) = logit_p

(* Some factors contribute and some do not. *)
C10_Witness ==
    /\ values = <<1, 0, 1, 0, 0, 1, 0>>
    /\ contributions = <<748, 0, 510, 0, 0, 731, 0>>

====
